---------------------------- MODULE Spec2Model ----------------------------
(***************************************************************************)
(* queuectl: a file-backed background job queue.                           *)
(*                                                                         *)
(* The model follows the TypeScript sources:                               *)
(*   JobStorage   (src/src/storage/JobStorage.ts)  jobs.json + jobs.lock   *)
(*   QueueManager (src/unnamed/part_002)           job life cycle          *)
(*   JobExecutor  (src/unnamed/part_002)           command validation      *)
(*   Worker       (src/src/workers/WorkerManager.ts) polling loop          *)
(*                                                                         *)
(* Granularity.  The workers of one pool are promise chains of ONE Node    *)
(* process.  A chain keeps the event loop until it waits for a timer or    *)
(* for a child process: an await on a promise that is already settled      *)
(* gives way to no timer callback, so no other worker of the pool runs in  *)
(* between (running).  A chain waits when acquireLock finds jobs.lock      *)
(* (setTimeout 10 ms), when the command is spawned, and when a poll ends   *)
(* (setTimeout poll interval).  The command line client is an operating    *)
(* system process of its own: each file system call of any task is a step  *)
(* of its own for it.                                                      *)
(* Time is counted in seconds.  updated_at is stamped by updateJob and     *)
(* read by no modelled operation; it is left out of the job record.        *)
(***************************************************************************)
EXTENDS Integers, Sequences, FiniteSets, TLC

(* ---------------------------- bounds ---------------------------------- *)
NumWorkers == 2
MaxJobs == 2
MaxTime == 2
MaxOverride == 2
MaxBase == 2
MaxSignals == 3
MaxFailed == 8

(* ------------------------ program constants --------------------------- *)
CmdCeiling == 10000
DefaultMaxRetries == 3
DefaultBackoffBase == 2
DefaultShutdownTimeout == 30
LockTimeoutSecs == 5

(* ----------------------------- values --------------------------------- *)
Workers == 1..NumWorkers
Client == 0
Main == NumWorkers + 1
Tasks == Workers \cup {Client, Main}
PoolPid == 1
ClientPid == 2
NoFile == [exists |-> FALSE, data |-> <<>>]
File(data) == [exists |-> TRUE, data |-> data]

(* The content of a jobs.json whose text is not JSON, and what JSON.parse *)
(* gives for it: it throws a SyntaxError.                                 *)
Garbled == <<[id |-> 0, text |-> "not JSON"]>>
SyntaxError == <<[id |-> 0, error |-> "SyntaxError"]>>

(* A parse that takes a garbled file for an empty collection. *)
ParseAsEmpty(data) == IF data = Garbled THEN <<>> ELSE data

(* readJobs, line 66: JSON.parse(data) of the text written by             *)
(* JSON.stringify gives the collection back.                              *)
Parse(data) == IF data = Garbled THEN SyntaxError ELSE data
NoPid == 0
NoTime == -1
NoWorker == 0
NoJob == [id |-> 0]
NoOutput == <<>>
Undefined == -1
NoTask == -1

JobState == [PENDING |-> "pending", PROCESSING |-> "processing",
             COMPLETED |-> "completed", FAILED |-> "failed", DEAD |-> "dead"]

NoUpdates == [none |-> TRUE]

Pid(t) == IF t = Client THEN ClientPid ELSE PoolPid

(* A command string, by what validateCommand and execute read of it:      *)
(* lead/trail whitespace characters around body characters (body starts   *)
(* and ends with a non-blank), and the exit code the shell gives it.      *)
Command(lead, body, trail, exit) ==
    [lead |-> lead, body |-> body, trail |-> trail, exit |-> exit]

Length(c) == c.lead + c.body + c.trail

Trim(c) == [c EXCEPT !.lead = 0, !.trail = 0]

(* validateCommand without the trim: a blank command passes. *)
validateCommandNoTrim(c) ==
    IF Length(c) = 0 THEN "Command cannot be empty"
    ELSE IF Length(c) > CmdCeiling THEN "Command is too long"
    ELSE "valid"

validateCommand(c) ==
    IF Length(c) = 0 \/ Length(Trim(c)) = 0 THEN "Command cannot be empty"
    ELSE IF Length(c) > CmdCeiling THEN "Command is too long"
    ELSE "valid"

(* What the command writes to its standard output, trimmed. *)
Stdout(c) == <<"stdout", Trim(c)>>

(* JobExecutor.execute: success iff the exit code is 0. *)
execute(c) ==
    IF c.exit = 0 THEN [success |-> TRUE, output |-> Stdout(c), error |-> "none"]
    ELSE [success |-> FALSE, output |-> Stdout(c), error |-> "exited"]

RECURSIVE Pow(_, _)
Pow(b, e) == IF e = 0 THEN 1 ELSE b * Pow(b, e - 1)

(* ------------------------- the job collection ------------------------- *)
IndexOf(jobs, id) ==
    IF \E i \in 1..Len(jobs) : jobs[i].id = id
    THEN CHOOSE i \in 1..Len(jobs) :
           jobs[i].id = id /\ \A k \in 1..(i - 1) : jobs[k].id # id
    ELSE 0

Find(jobs, id) == IF IndexOf(jobs, id) = 0 THEN NoJob ELSE jobs[IndexOf(jobs, id)]

(* An update that also sets the retry limit back to the default. *)
MergeDefaultLimit(rec, updates) ==
    [f \in DOMAIN rec |-> IF f \in DOMAIN updates THEN updates[f]
                          ELSE IF f = "max_retries" THEN DefaultMaxRetries ELSE rec[f]]

(* updateJob's { ...jobs[index], ...updates }: the fields of updates win.  *)
Merge(rec, updates) ==
    [f \in DOMAIN rec |-> IF f \in DOMAIN updates THEN updates[f] ELSE rec[f]]

Apply(jobs, id, updates) ==
    [i \in 1..Len(jobs) |->
        IF i = IndexOf(jobs, id) THEN Merge(jobs[i], updates) ELSE jobs[i]]

(* The filter that lets no failed job through. *)
AvailablePendingOnly(j, now) ==
    /\ j.state = JobState.PENDING
    /\ (j.next_retry_at # NoTime => j.next_retry_at <= now)

(* The filter that lets no job through that has a retry time. *)
AvailableWithoutRetryTime(j, now) ==
    /\ j.state \in {JobState.PENDING, JobState.FAILED}
    /\ j.next_retry_at = NoTime

Available(j, now) ==
    /\ j.state \in {JobState.PENDING, JobState.FAILED}
    /\ (j.next_retry_at # NoTime => j.next_retry_at <= now)

(* Array.prototype.sort with the created_at comparator: a stable sort.    *)
RECURSIVE Insert(_, _)
Insert(j, sorted) ==
    IF sorted = <<>> THEN <<j>>
    ELSE IF Head(sorted).created_at <= j.created_at
         THEN <<Head(sorted)>> \o Insert(j, Tail(sorted))
         ELSE <<j>> \o sorted

RECURSIVE SortByCreatedAt(_)
SortByCreatedAt(s) ==
    IF s = <<>> THEN <<>>
    ELSE Insert(s[Len(s)], SortByCreatedAt(SubSeq(s, 1, Len(s) - 1)))

getNextPendingJob(jobs, now) ==
    LET availableJobs == SortByCreatedAt(SelectSeq(jobs, LAMBDA j : Available(j, now)))
    IN IF availableJobs = <<>> THEN NoJob ELSE availableJobs[1]

(* enqueue that never looks at the override. *)
NewJobConfigOnly(id, command, maxRetries, configMaxRetries, now) ==
    [id |-> id, command |-> command, state |-> "pending", attempts |-> 0,
     max_retries |-> configMaxRetries,
     created_at |-> now, next_retry_at |-> NoTime, error_message |-> "none",
     output |-> NoOutput, worker_id |-> NoWorker]

NewJob(id, command, maxRetries, configMaxRetries, now) ==
    [id |-> id, command |-> command, state |-> JobState.PENDING, attempts |-> 0,
     max_retries |-> IF maxRetries # Undefined THEN maxRetries ELSE configMaxRetries,
     created_at |-> now, next_retry_at |-> NoTime, error_message |-> "none",
     output |-> NoOutput, worker_id |-> NoWorker]

(* ------------------- the updates QueueManager passes ------------------ *)
MarkProcessing(w) == [state |-> JobState.PROCESSING, worker_id |-> w]

(* A completion that does not record the output. *)
MarkCompletedNoOutput(out) ==
    [state |-> JobState.COMPLETED, worker_id |-> NoWorker]

MarkCompleted(out) ==
    [state |-> JobState.COMPLETED, output |-> out, worker_id |-> NoWorker]

(* The delay with the attempt count before the increment as exponent. *)
RetryDelayPreIncrement(backoffBase, newAttempts) == Pow(backoffBase, newAttempts - 1)

RetryDelay(backoffBase, newAttempts) == Pow(backoffBase, newAttempts)

FailureUpdate(j, backoffBase, msg, now) ==
    LET newAttempts == j.attempts + 1
    IN IF newAttempts >= j.max_retries
       THEN [state |-> JobState.DEAD, attempts |-> newAttempts,
             error_message |-> msg, worker_id |-> NoWorker]
       ELSE [state |-> JobState.FAILED, attempts |-> newAttempts,
             error_message |-> msg,
             next_retry_at |-> now + RetryDelay(backoffBase, newAttempts),
             worker_id |-> NoWorker]

(* A retry from the dead letter queue that keeps the attempt count. *)
DlqRetryKeepsAttempts ==
    [state |-> JobState.PENDING, error_message |-> "none", next_retry_at |-> NoTime]

DlqRetryUpdate ==
    [state |-> JobState.PENDING, attempts |-> 0, error_message |-> "none",
     next_retry_at |-> NoTime]

(* ------------------------------ state --------------------------------- *)
VARIABLES
    jobsFile,   \* jobs.json: the persisted job collection
    tmpFile,    \* jobs.json.tmp: NoFile, or the collection being written
    lockFile,   \* jobs.lock: NoPid, or the pid written into it
    pidFile,    \* workers.pid: NoPid, or the pid written into it
    clock,      \* Date.now(), in seconds
    config,     \* ConfigManager.config
    nextId,     \* uuidv4(): the next fresh job id
    task,       \* per task: where it stands and its local variables
    worker,     \* per worker: Worker.state and Worker.currentJobId
    args,       \* the client's current command line
    reply,      \* what the client's last command returned
    returned,   \* ids of the jobs enqueue has returned
    running     \* the pool task whose chain holds the event loop, or NoTask

vars == <<jobsFile, tmpFile, lockFile, pidFile, clock, config, nextId, task, worker,
          args, reply, returned, running>>

files == <<jobsFile, tmpFile, lockFile>>

Local(pc, io) ==
    [pc |-> pc, io |-> io, jobId |-> 0, job |-> NoJob, updates |-> NoUpdates,
     jobs |-> <<>>, inCatch |-> FALSE, count |-> 0, todo |-> <<>>, since |-> NoTime,
     isShuttingDown |-> FALSE, signals |-> 0, resetCount |-> 0]

IdleWorker == [state |-> "idle", currentJobId |-> 0, isRunning |-> TRUE, jobsFailed |-> 0]

(* Worker constructor, lines 186-194. *)
NewWorker == [state |-> "idle", currentJobId |-> 0, isRunning |-> FALSE, jobsFailed |-> 0]

NoArgs == [op |-> "none"]

Reply(op, ok, j, found) == [op |-> op, ok |-> ok, job |-> j, found |-> found]

Init ==
    /\ jobsFile = <<>>
    /\ tmpFile = NoFile
    /\ lockFile = NoPid
    /\ pidFile = NoPid
    /\ clock = 0
    /\ config = [max_retries |-> DefaultMaxRetries, backoff_base |-> DefaultBackoffBase,
                 graceful_shutdown_timeout |-> DefaultShutdownTimeout]
    /\ nextId = 1
    /\ task = [t \in Tasks |->
                 IF t = Client THEN Local("ready", "none")
                 ELSE IF t = Main THEN Local("down", "none")
                 ELSE Local("off", "none")]
    /\ worker = [w \in Workers |-> NewWorker]
    /\ args = NoArgs
    /\ reply = NoArgs
    /\ returned = {}
    /\ running = NoTask

(* Tasks of the pool process share one event loop: a timer or child       *)
(* process callback of task t runs when no chain holds the loop.           *)
CanRun(t) == t = Client \/ running \in {t, NoTask}

Hold(t) == IF t = Client THEN running ELSE t

InCriticalSection(t) == task[t].io \in {"locked", "tmp"}

Tick ==
    /\ clock < MaxTime
    /\ clock' = clock + 1
    /\ UNCHANGED <<files, pidFile, config, nextId, task, worker, args, reply, returned,
                   running>>

(* ------------------------- JobStorage: the lock ----------------------- *)
(* acquireLock, line 35: existsSync(lockFile) answered "absent". *)
LockCheck(t) ==
    /\ task[t].io \in {"check", "wait"}
    /\ CanRun(t)
    /\ lockFile = NoPid
    /\ task' = [task EXCEPT ![t].io = "create", ![t].since = NoTime]
    /\ running' = Hold(t)
    /\ UNCHANGED <<files, clock, pidFile, config, nextId, worker, args, reply, returned>>

(* acquireLock, lines 34-39: the file exists, the caller sleeps 10 ms and  *)
(* checks again; startTime is the time of the call.  A chain of the pool  *)
(* gives the event loop away.                                             *)
LockWait(t) ==
    /\ task[t].io = "check"
    /\ running = t
    /\ lockFile # NoPid
    /\ running' = NoTask
    /\ task' = [task EXCEPT ![t].io = "wait", ![t].since = clock]
    /\ UNCHANGED <<files, clock, pidFile, config, nextId, worker, args, reply, returned>>

(* acquireLock, lines 34-39, in the client process. *)
ClientLockWait ==
    /\ task[Client].io = "check"
    /\ lockFile # NoPid
    /\ task' = [task EXCEPT ![Client].io = "wait", ![Client].since = clock]
    /\ UNCHANGED <<files, clock, pidFile, config, nextId, worker, args, reply, returned,
                   running>>

(* Time passes while a task sleeps in acquireLock, up to the moment the   *)
(* first sleeper can time out.                                            *)
LockSleep ==
    /\ clock <= LockTimeoutSecs
    /\ \E t \in Tasks : /\ task[t].io = "wait"
                        /\ task[t].since # NoTime
                        /\ lockFile # NoPid
    /\ clock' = clock + 1
    /\ UNCHANGED <<files, pidFile, config, nextId, task, worker, args, reply, returned,
                   running>>

(* acquireLock, line 41: writeFileSync(lockFile, pid). *)
LockCreate(t) ==
    /\ task[t].io = "create"
    /\ lockFile' = Pid(t)
    /\ task' = [task EXCEPT ![t].io = "locked"]
    /\ UNCHANGED <<jobsFile, tmpFile, clock, pidFile, config, nextId, worker, args, reply,
                   returned, running>>

(* A release that leaves the lock file in place. *)
keepLock == lockFile' = lockFile

(* releaseLock: unlink the lock file if it exists, whoever wrote it. *)
releaseLock == lockFile' = NoPid

WritePcs == {"markW", "compW", "failW", "addW", "dlqW", "resetW"}

(* writeJobs, line 86: writeFileSync(tempFile, JSON.stringify(jobs)). *)
WriteTmp(t) ==
    /\ task[t].io = "locked"
    /\ task[t].pc \in WritePcs
    /\ CanRun(t)
    /\ tmpFile' = File(task[t].jobs)
    /\ task' = [task EXCEPT ![t].io = "tmp"]
    /\ UNCHANGED <<jobsFile, lockFile, clock, pidFile, config, nextId, worker, args, reply,
                   returned, running>>

(* ------------------- what follows a store operation ------------------- *)
(* getNextJob threw, processNextJob line 260: the call is outside the     *)
(* try block, so neither catch nor finally of lines 268-282 runs; poll's  *)
(* catch, lines 241-243, logs the error and poll's finally, lines         *)
(* 244-248, schedules the next poll unless the worker was stopped.        *)
PollDone(w) ==
    /\ IF worker[w].isRunning
       THEN task' = [task EXCEPT ![w] = Local("next", "check")]
       ELSE task' = [task EXCEPT ![w].pc = "off", ![w].io = "none"]
    /\ UNCHANGED worker
    /\ running' = NoTask

(* Worker.processNextJob, lines 268-282: jobsFailed counts a processJob   *)
(* that returned false or threw; the finally block clears currentJobId,   *)
(* the state goes back to idle and poll's finally schedules the next      *)
(* poll; after stop() the state is stopping and no poll is scheduled.     *)
WorkerDone(w, failed) ==
    /\ worker[w].jobsFailed + failed <= MaxFailed
    /\ IF worker[w].isRunning
       THEN /\ task' = [task EXCEPT ![w] = Local("next", "check")]
            /\ worker' = [worker EXCEPT ![w].state = "idle", ![w].currentJobId = 0,
                                        ![w].jobsFailed = worker[w].jobsFailed + failed]
       ELSE /\ task' = [task EXCEPT ![w].pc = "off", ![w].io = "none"]
            /\ worker' = [worker EXCEPT ![w].state = "stopping", ![w].currentJobId = 0,
                                        ![w].jobsFailed = worker[w].jobsFailed + failed]
    /\ running' = NoTask

(* A worker whose next poll is scheduled when its command is started. *)
StartExecutePolls(t) ==
    /\ task' = [task EXCEPT ![t] = Local("next", "check")]
    /\ running' = NoTask
    /\ UNCHANGED worker

(* The job's command is started: processJob, line 63; the chain waits for *)
(* the child process.                                                     *)
StartExecute(t) ==
    /\ task' = [task EXCEPT ![t].pc = "exec", ![t].io = "none", ![t].jobs = <<>>]
    /\ running' = NoTask
    /\ UNCHANGED worker

(* handleJobFailure is entered: its getJob comes first. *)
EnterFailure(t, msg, fromCatch) ==
    /\ task' = [task EXCEPT ![t] = [Local("failG", "check") EXCEPT
                   !.jobId = task[t].jobId, !.job = task[t].job,
                   !.updates = [error_message |-> msg], !.inCatch = fromCatch]]
    /\ UNCHANGED worker

ClientReturns(r) ==
    /\ task' = [task EXCEPT ![Client] = Local("ready", "none")]
    /\ reply' = r
    /\ UNCHANGED running

Stuck(jobs) == SelectSeq(jobs, LAMBDA j : j.state = JobState.PROCESSING)

RECURSIVE Ids(_)
Ids(jobs) == IF jobs = <<>> THEN <<>> ELSE <<Head(jobs).id>> \o Ids(Tail(jobs))

(* A reset that starts the job afresh. *)
ResetUpdateClearsAttempts ==
    [state |-> JobState.PENDING, worker_id |-> NoWorker, attempts |-> 0,
     error_message |-> "none"]

(* resetStuckJobs, lines 201-204: the update of a processing job. *)
ResetUpdate == [state |-> JobState.PENDING, worker_id |-> NoWorker]

(* resetStuckJobs' loop, lines 199-209, at the jobs it has still to       *)
(* visit, with resetCount at n; after the last one n is returned.         *)
ResetLoop(t, todo, n) ==
    IF todo = <<>>
    THEN task' = [task EXCEPT ![t] = [Local("spawn", "none") EXCEPT
                                        !.count = task[t].count, !.resetCount = n]]
    ELSE task' = [task EXCEPT ![t].pc = "resetR", ![t].io = "check", ![t].jobs = <<>>,
                              ![t].jobId = Head(todo), ![t].updates = ResetUpdate,
                              ![t].todo = Tail(todo), ![t].resetCount = n]

(* writeJobs returned to the caller in task[t].pc. *)
AfterWrite(t) ==
    CASE task[t].pc = "markW" ->
           StartExecute(t) /\ UNCHANGED <<reply, returned>>
      [] task[t].pc = "compW" ->
           WorkerDone(t, 0) /\ UNCHANGED <<reply, returned>>
      [] task[t].pc = "failW" ->
           WorkerDone(t, 1) /\ UNCHANGED <<reply, returned>>
      [] task[t].pc = "addW" ->
           /\ ClientReturns(Reply(args.op, TRUE, task[t].job, NoJob))
           /\ returned' = returned \cup {task[t].job.id}
           /\ UNCHANGED worker
      [] task[t].pc = "dlqW" ->
           /\ ClientReturns(Reply("retry", TRUE, NoJob, NoJob))
           /\ UNCHANGED <<worker, returned>>
      [] task[t].pc = "resetW" ->
           /\ ResetLoop(t, task[t].todo, task[t].resetCount + 1)
           /\ UNCHANGED <<worker, reply, returned, running>>

(* A store operation threw to the caller in task[t].pc.  processJob's     *)
(* first updateJob is outside its try block; the later calls are inside,  *)
(* and its catch block calls handleJobFailure.                            *)
AfterError(t) ==
    CASE task[t].pc = "next" ->
           PollDone(t) /\ UNCHANGED <<reply, returned>>
      [] task[t].pc \in {"get", "markR", "markW"} ->
           WorkerDone(t, 1) /\ UNCHANGED <<reply, returned>>
      [] task[t].pc \in {"compR", "compW"} ->
           EnterFailure(t, "unexpected", TRUE) /\ UNCHANGED <<reply, returned, running>>
      [] task[t].pc \in {"failG", "failR", "failW"} ->
           /\ IF task[t].inCatch THEN WorkerDone(t, 1)
              ELSE EnterFailure(t, "unexpected", TRUE) /\ UNCHANGED running
           /\ UNCHANGED <<reply, returned>>
      [] task[t].pc \in {"addR", "addW", "back", "dlqG", "dlqR", "dlqW", "stats"} ->
           /\ ClientReturns(Reply(args.op, FALSE, NoJob, NoJob))
           /\ UNCHANGED <<worker, returned>>
      [] task[t].pc \in {"reset", "resetR", "resetW"} ->
           /\ IF t = Client
              THEN ClientReturns(Reply(args.op, FALSE, NoJob, NoJob))
              ELSE /\ task' = [task EXCEPT ![t] = Local("failed", "none")]
                   /\ running' = NoTask
                   /\ UNCHANGED reply
           /\ UNCHANGED <<worker, returned>>

(* A writeJobs that returns without releasing the lock. *)
RenameKeepsLock(t) ==
    /\ task[t].io = "tmp"
    /\ tmpFile.exists
    /\ jobsFile' = tmpFile.data
    /\ tmpFile' = NoFile
    /\ AfterWrite(t)
    /\ UNCHANGED <<lockFile, clock, pidFile, config, nextId, args>>

(* writeJobs, lines 89-91: renameSync(tempFile, jobsFile), releaseLock. *)
Rename(t) ==
    /\ task[t].io = "tmp"
    /\ tmpFile.exists
    /\ jobsFile' = tmpFile.data
    /\ tmpFile' = NoFile
    /\ releaseLock
    /\ AfterWrite(t)
    /\ UNCHANGED <<clock, pidFile, config, nextId, args>>

(* writeJobs, lines 89 and 92-94: the temp file is gone (another process  *)
(* renamed it): renameSync throws, the catch block releases and rethrows. *)
RenameFails(t) ==
    /\ task[t].io = "tmp"
    /\ ~tmpFile.exists
    /\ releaseLock
    /\ AfterError(t)
    /\ UNCHANGED <<jobsFile, tmpFile, clock, pidFile, config, nextId, args>>

(* A timeout that is passed on without the catch block's releaseLock. *)
LockTimeoutKeepsLock(t) ==
    /\ task[t].io = "wait"
    /\ CanRun(t)
    /\ lockFile # NoPid
    /\ task[t].since # NoTime
    /\ clock - task[t].since > LockTimeoutSecs
    /\ AfterError(t)
    /\ UNCHANGED <<jobsFile, tmpFile, lockFile, clock, pidFile, config, nextId, args>>

(* acquireLock, lines 36-38, in readJobs or writeJobs: the lock file is   *)
(* still there more than 5 s after the call, acquireLock throws; the     *)
(* catch block of readJobs, line 70, or of writeJobs, line 93, calls      *)
(* releaseLock and rethrows.                                              *)
LockTimeout(t) ==
    /\ task[t].io = "wait"
    /\ CanRun(t)
    /\ lockFile # NoPid
    /\ task[t].since # NoTime
    /\ clock - task[t].since > LockTimeoutSecs
    /\ releaseLock
    /\ AfterError(t)
    /\ UNCHANGED <<jobsFile, tmpFile, clock, pidFile, config, nextId, args>>

(* readJobs, lines 60-68, inside the lock: the collection, then release. *)
ReadJobs(t, pc) ==
    /\ task[t].io = "locked"
    /\ task[t].pc = pc
    /\ CanRun(t)
    /\ Parse(jobsFile) # SyntaxError
    /\ releaseLock
    /\ UNCHANGED <<jobsFile, tmpFile, clock, pidFile, config, nextId, args>>

(* readJobs, lines 66 and 69-75: JSON.parse throws, the catch block       *)
(* releases the lock and rethrows what is not ENOENT; the callers         *)
(* (addJob, updateJob, getJob, getNextPendingJob, getStats) pass it on.   *)
ReadFails(t) ==
    /\ task[t].io = "locked"
    /\ task[t].pc \notin WritePcs
    /\ CanRun(t)
    /\ Parse(jobsFile) = SyntaxError
    /\ releaseLock
    /\ AfterError(t)
    /\ UNCHANGED <<jobsFile, tmpFile, clock, pidFile, config, nextId, args>>

(* updateJob, lines 111-124, between its readJobs and its writeJobs. *)
UpdateRead(t, pc, pcWrite, notFound) ==
    /\ ReadJobs(t, pc)
    /\ IF IndexOf(Parse(jobsFile), task[t].jobId) = 0
       THEN notFound
       ELSE /\ task' = [task EXCEPT ![t].pc = pcWrite, ![t].io = "check",
                          ![t].jobs = Apply(Parse(jobsFile), task[t].jobId, task[t].updates)]
            /\ UNCHANGED <<worker, reply, returned, running>>

(* ------------------------------ Worker -------------------------------- *)
(* processNextJob, lines 260-266, after getNextJob's readJobs: the state  *)
(* was looked at before the call, line 256, and is not looked at again.   *)
(* Without a job, poll's finally, lines 244-248, schedules the next poll  *)
(* unless the worker was stopped.                                         *)
GetNextJob(w) ==
    /\ ReadJobs(w, "next")
    /\ LET j == getNextPendingJob(Parse(jobsFile), clock)
       IN IF j.id = 0
          THEN /\ task' = [task EXCEPT ![w] =
                             IF worker[w].isRunning THEN Local("next", "check")
                             ELSE Local("off", "none")]
               /\ running' = NoTask
               /\ UNCHANGED worker
          ELSE /\ worker' = [worker EXCEPT ![w].state = "busy", ![w].currentJobId = j.id]
               /\ task' = [task EXCEPT ![w] = [Local("get", "check") EXCEPT !.jobId = j.id]]
               /\ UNCHANGED running
    /\ UNCHANGED <<reply, returned>>

(* processJob, lines 50-59: getJob, then the update is prepared. *)
ProcessGetJob(w) ==
    /\ ReadJobs(w, "get")
    /\ LET j == Find(Parse(jobsFile), task[w].jobId)
       IN IF j.id = 0
          THEN WorkerDone(w, 1)
          ELSE /\ task' = [task EXCEPT ![w].pc = "markR", ![w].io = "check",
                             ![w].job = j, ![w].updates = MarkProcessing(w)]
               /\ UNCHANGED <<worker, running>>
    /\ UNCHANGED <<reply, returned>>

(* processJob, line 56: updateJob(jobId, PROCESSING); its result is not   *)
(* looked at, the command is started either way.                          *)
MarkRead(w) ==
    UpdateRead(w, "markR", "markW", StartExecute(w) /\ UNCHANGED <<reply, returned>>)

(* processJob, lines 63-77: the command has ended. *)
ExecuteDone(w) ==
    /\ task[w].pc = "exec"
    /\ running = NoTask
    /\ running' = w
    /\ LET result == execute(task[w].job.command)
       IN IF result.success
          THEN /\ task' = [task EXCEPT ![w].pc = "compR", ![w].io = "check",
                             ![w].updates = MarkCompleted(result.output)]
               /\ UNCHANGED worker
          ELSE EnterFailure(w, result.error, FALSE)
    /\ UNCHANGED <<files, clock, pidFile, config, nextId, args, reply, returned>>

(* processJob, line 67: updateJob(jobId, COMPLETED). *)
CompleteRead(w) ==
    UpdateRead(w, "compR", "compW", WorkerDone(w, 0) /\ UNCHANGED <<reply, returned>>)

(* handleJobFailure, lines 89-108: getJob, the attempt count, the delay. *)
FailureGetJob(w) ==
    /\ ReadJobs(w, "failG")
    /\ LET j == Find(Parse(jobsFile), task[w].jobId)
       IN IF j.id = 0
          THEN WorkerDone(w, 1)
          ELSE /\ task' = [task EXCEPT ![w].pc = "failR", ![w].io = "check",
                     ![w].updates = FailureUpdate(j, config.backoff_base,
                                        task[w].updates.error_message, clock)]
               /\ UNCHANGED <<worker, running>>
    /\ UNCHANGED <<reply, returned>>

(* handleJobFailure, lines 98 and 110: updateJob(jobId, DEAD or FAILED). *)
FailureRead(w) ==
    UpdateRead(w, "failR", "failW", WorkerDone(w, 1) /\ UNCHANGED <<reply, returned>>)

(* ------------------------ the command line client --------------------- *)
(* enqueue, lines 26-29: validateCommand refuses the command. *)
EnqueueRejected(command, maxRetries) ==
    /\ task[Client].pc = "ready"
    /\ validateCommand(command) # "valid"
    /\ args' = [op |-> "enqueue", command |-> command, maxRetries |-> maxRetries]
    /\ reply' = Reply("enqueue", FALSE, NoJob, NoJob)
    /\ UNCHANGED <<files, clock, pidFile, config, nextId, task, worker, returned, running>>

(* enqueue, lines 26-42: the job object is built, addJob is called. *)
Enqueue(command, maxRetries) ==
    /\ task[Client].pc = "ready"
    /\ validateCommand(command) = "valid"
    /\ nextId <= MaxJobs
    /\ args' = [op |-> "enqueue", command |-> command, maxRetries |-> maxRetries]
    /\ task' = [task EXCEPT ![Client] = [Local("addR", "check") EXCEPT
                   !.job = NewJob(nextId, command, maxRetries, config.max_retries, clock)]]
    /\ nextId' = nextId + 1
    /\ reply' = NoArgs
    /\ UNCHANGED <<files, clock, pidFile, config, worker, returned, running>>

(* addJob, line 101, called with a job record whose id the caller chose.  *)
AddJob(id, command) ==
    /\ task[Client].pc = "ready"
    /\ Len(jobsFile) <= MaxJobs
    /\ args' = [op |-> "addJob", command |-> command, maxRetries |-> Undefined]
    /\ task' = [task EXCEPT ![Client] = [Local("addR", "check") EXCEPT
                   !.job = NewJob(id, command, Undefined, config.max_retries, clock)]]
    /\ reply' = NoArgs
    /\ UNCHANGED <<files, clock, pidFile, config, nextId, worker, returned, running>>

(* addJob, lines 102-104: readJobs, push. *)
AddRead ==
    /\ ReadJobs(Client, "addR")
    /\ task' = [task EXCEPT ![Client].pc = "addW", ![Client].io = "check",
                  ![Client].jobs = Append(Parse(jobsFile), task[Client].job)]
    /\ UNCHANGED <<worker, reply, returned, running>>

(* The caller reads the job it has just enqueued back: getJob(job.id). *)
ReadBack ==
    /\ task[Client].pc = "ready"
    /\ reply.op = "enqueue" /\ reply.ok
    /\ task' = [task EXCEPT ![Client] = [Local("back", "check") EXCEPT
                   !.jobId = reply.job.id, !.job = reply.job]]
    /\ UNCHANGED <<files, clock, pidFile, config, nextId, worker, args, reply, returned,
                   running>>

(* JobStorage.getJob, lines 131-134. *)
ReadBackGetJob ==
    /\ ReadJobs(Client, "back")
    /\ ClientReturns(Reply("readback", TRUE, task[Client].job,
                             Find(Parse(jobsFile), task[Client].jobId)))
    /\ UNCHANGED <<worker, returned>>

(* JobStorage.getStats, lines 192-202: the jobs counted by state. *)
Count(jobs, state) == Len(SelectSeq(jobs, LAMBDA j : j.state = state))

(* QueueManager.getStats, lines 148-156, and the total of cli.ts, line    *)
(* 128.                                                                   *)
getStats(jobs) ==
    [pending |-> Count(jobs, JobState.PENDING) + Count(jobs, JobState.FAILED),
     processing |-> Count(jobs, JobState.PROCESSING),
     completed |-> Count(jobs, JobState.COMPLETED),
     failed |-> Count(jobs, JobState.FAILED),
     dead |-> Count(jobs, JobState.DEAD)]

TotalJobs(stats) ==
    stats.pending + stats.processing + stats.completed + stats.failed + stats.dead

(* `queuectl status`: getStats is called. *)
Status ==
    /\ task[Client].pc = "ready"
    /\ args' = [op |-> "status"]
    /\ task' = [task EXCEPT ![Client] = Local("stats", "check")]
    /\ reply' = NoArgs
    /\ UNCHANGED <<files, clock, pidFile, config, nextId, worker, returned, running>>

(* getStats after its readJobs; the table and the total are printed. *)
StatusRead ==
    /\ ReadJobs(Client, "stats")
    /\ ClientReturns([op |-> "status", ok |-> TRUE, stats |-> getStats(Parse(jobsFile)),
                      total |-> TotalJobs(getStats(Parse(jobsFile)))])
    /\ UNCHANGED <<worker, returned>>

(* retryDeadJob is called: dlq retry <id>. *)
DlqRetry(id) ==
    /\ task[Client].pc = "ready"
    /\ args' = [op |-> "retry", id |-> id]
    /\ task' = [task EXCEPT ![Client] = [Local("dlqG", "check") EXCEPT !.jobId = id]]
    /\ reply' = NoArgs
    /\ UNCHANGED <<files, clock, pidFile, config, nextId, worker, returned, running>>

(* retryDeadJob, lines 163-166: getJob, the state test. *)
DlqGetJob ==
    /\ ReadJobs(Client, "dlqG")
    /\ LET j == Find(Parse(jobsFile), task[Client].jobId)
       IN IF j.id = 0 \/ j.state # JobState.DEAD
          THEN ClientReturns(Reply("retry", FALSE, NoJob, NoJob))
          ELSE /\ task' = [task EXCEPT ![Client].pc = "dlqR", ![Client].io = "check",
                             ![Client].job = j, ![Client].updates = DlqRetryUpdate]
               /\ UNCHANGED <<reply, running>>
    /\ UNCHANGED <<worker, returned>>

(* retryDeadJob, lines 168-175: updateJob; true whatever it returns. *)
DlqRead ==
    UpdateRead(Client, "dlqR", "dlqW",
               ClientReturns(Reply("retry", TRUE, NoJob, NoJob)) /\ UNCHANGED <<worker, returned>>)

(* ConfigManager.set, lines 277-284, from "config set <key> <value>".  The *)
(* pool process loads the file when it is constructed: the client sets    *)
(* values before the pool starts.                                         *)
ConfigSet(key, value) ==
    /\ task[Client].pc = "ready"
    /\ task[Main].pc = "down"
    /\ value >= 0
    /\ config[key] # value
    /\ config' = [config EXCEPT ![key] = value]
    /\ args' = [op |-> "config"]
    /\ reply' = NoArgs
    /\ UNCHANGED <<files, clock, pidFile, nextId, task, worker, returned, running>>

(* ---------------------------- WorkerManager --------------------------- *)
(* The pool process is not there: never started, or its start was refused *)
(* or failed, or it exited or was killed.                                 *)
PoolDown == task[Main].pc \in {"down", "refused", "failed", "exited", "crashed"}

(* isRunning, lines 85-87, in a process that has created no worker yet.   *)
isRunning == pidFile # NoPid

(* `queuectl worker start -c count`: start, lines 27-39, up to where      *)
(* resetStuckJobs is called.                                              *)
StartPool(count) ==
    /\ PoolDown
    /\ count >= 1
    /\ ~isRunning
    /\ task' = [task EXCEPT ![Main] = [Local("reset", "check") EXCEPT !.count = count]]
    /\ running' = Main
    /\ UNCHANGED <<files, clock, pidFile, config, nextId, worker, args, reply, returned>>

(* start, lines 33-35, and cli.ts, lines 79-82: the pid file is there,    *)
(* start throws and the process exits with status 1.                      *)
StartRefused ==
    /\ PoolDown
    /\ task[Main].pc # "refused"
    /\ isRunning
    /\ task' = [task EXCEPT ![Main] = Local("refused", "none")]
    /\ UNCHANGED <<files, clock, pidFile, config, nextId, worker, args, reply, returned,
                   running>>

(* resetStuckJobs, line 196: the collection it iterates over is read. *)
ResetStuckJobs(t) ==
    /\ ReadJobs(t, "reset")
    /\ ResetLoop(t, Ids(Stuck(Parse(jobsFile))), 0)
    /\ UNCHANGED <<worker, reply, returned, running>>

(* resetStuckJobs, lines 200-203: updateJob on a processing job. *)
ResetRead(t) ==
    UpdateRead(t, "resetR", "resetW",
               ResetLoop(t, task[t].todo, task[t].resetCount + 1) /\ UNCHANGED <<worker, reply, returned, running>>)

(* start, lines 44-51: the workers are created and poll, the first        *)
(* created first; the others find jobs.lock taken or wait for their turn. *)
(* Then the pid file is written and the shutdown handlers are installed.  *)
SpawnWorkers ==
    /\ task[Main].pc = "spawn"
    /\ task' = [t \in Tasks |->
                  IF t = 1 THEN Local("next", "check")
                  ELSE IF t \in 2..task[Main].count THEN Local("next", "wait")
                  ELSE IF t = Main THEN [Local("up", "none") EXCEPT !.count = task[Main].count]
                  ELSE task[t]]
    /\ worker' = [w \in Workers |-> IF w <= task[Main].count THEN IdleWorker ELSE NewWorker]
    /\ pidFile' = PoolPid
    /\ running' = 1
    /\ UNCHANGED <<files, clock, config, nextId, args, reply, returned>>

(* start, lines 44-56, where the runtime has no Deno global: the workers  *)
(* are created and the pid file is written, then setupShutdownHandlers    *)
(* throws a ReferenceError and cli.ts, lines 79-82, exits with status 1   *)
(* before a worker has touched a job.                                     *)
StartFails ==
    /\ task[Main].pc = "spawn"
    /\ task' = [task EXCEPT ![Main] = Local("failed", "none")]
    /\ pidFile' = PoolPid
    /\ running' = NoTask
    /\ UNCHANGED <<files, clock, config, nextId, worker, args, reply, returned>>

Started == {w \in Workers : w <= task[Main].count}

(* The poll timer of worker w is pending: clearTimeout cancels the poll.  *)
TimerPending(w) == task[w].pc = "next" /\ task[w].io = "check"

(* A loop condition that looks for the state busy. *)
WaitsWhileBusy(w) == worker[w].state = "busy" /\ worker[w].currentJobId # 0

(* Worker.stop's loop condition, line 224. *)
WaitsForJob(w) == worker[w].state = "stopping" /\ worker[w].currentJobId # 0

(* SIGTERM or SIGINT reaches the pool: the handler, lines 133-141, calls  *)
(* WorkerManager.stop, lines 62-72, and that calls every Worker.stop,     *)
(* lines 212-222, up to its first wait.                                   *)
Signal ==
    /\ task[Main].pc = "up"
    /\ running = NoTask
    /\ worker' = [w \in Workers |->
                    IF w \in Started
                    THEN [worker[w] EXCEPT !.state = "stopping", !.isRunning = FALSE]
                    ELSE worker[w]]
    /\ task' = [t \in Tasks |->
                  IF t \in Started /\ TimerPending(t) THEN Local("off", "none")
                  ELSE IF t = Main
                       THEN [task[t] EXCEPT !.pc = "stopping", !.since = clock,
                                            !.isShuttingDown = TRUE, !.signals = 1]
                  ELSE task[t]]
    /\ UNCHANGED <<files, clock, pidFile, config, nextId, args, reply, returned, running>>

(* A handler without the isShuttingDown check: every signal calls         *)
(* WorkerManager.stop, and every Worker.stop starts again.                *)
SignalAgainStops ==
    /\ task[Main].pc = "stopping"
    /\ running = NoTask
    /\ task[Main].signals < MaxSignals
    /\ worker' = [w \in Workers |->
                    IF w \in Started
                    THEN [worker[w] EXCEPT !.state = "stopping", !.isRunning = FALSE]
                    ELSE worker[w]]
    /\ task' = [task EXCEPT ![Main].since = clock,
                            ![Main].signals = task[Main].signals + 1]
    /\ UNCHANGED <<files, clock, pidFile, config, nextId, args, reply, returned, running>>

(* SIGTERM or SIGINT reaches the pool once more while stop is waiting:    *)
(* the handler, lines 133-136, finds isShuttingDown set, line 68, and     *)
(* returns.                                                               *)
SignalAgain ==
    /\ task[Main].pc = "stopping"
    /\ running = NoTask
    /\ task[Main].signals < MaxSignals
    /\ task[Main].isShuttingDown
    /\ task' = [task EXCEPT ![Main].signals = task[Main].signals + 1]
    /\ UNCHANGED <<files, clock, pidFile, config, nextId, worker, args, reply, returned,
                   running>>

(* A stop that waits for every job, with no timeout. *)
StopDoneNoTimeout ==
    /\ task[Main].pc = "stopping"
    /\ running = NoTask
    /\ \A w \in Started : ~WaitsForJob(w)
    /\ pidFile' = NoPid
    /\ task' = [t \in Tasks |->
                  IF t \in Workers THEN Local("off", "none")
                  ELSE IF t = Main THEN Local("exited", "none")
                  ELSE task[t]]
    /\ UNCHANGED <<files, clock, config, nextId, worker, args, reply, returned, running>>

(* Worker.stop, lines 224-230, has returned for every worker: its job is  *)
(* over or the timeout has passed.  WorkerManager.stop, lines 74-79,      *)
(* removes the pid file and the handler, line 140, ends the process.      *)
StopDone ==
    /\ task[Main].pc = "stopping"
    /\ running = NoTask
    /\ \A w \in Started :
          WaitsForJob(w) => clock - task[Main].since > config.graceful_shutdown_timeout
    /\ pidFile' = NoPid
    /\ task' = [t \in Tasks |->
                  IF t \in Workers THEN Local("off", "none")
                  ELSE IF t = Main THEN Local("exited", "none")
                  ELSE task[t]]
    /\ UNCHANGED <<files, clock, config, nextId, worker, args, reply, returned, running>>

(* The pool process is killed (kill -9, power loss): its tasks are gone,  *)
(* the files stay as they are.                                            *)
Crash ==
    /\ task[Main].pc = "up"
    /\ running' = NoTask
    /\ task' = [t \in Tasks |->
                  IF t \in Workers THEN Local("off", "none")
                  ELSE IF t = Main THEN Local("crashed", "none")
                  ELSE task[t]]
    /\ worker' = [w \in Workers |-> NewWorker]
    /\ UNCHANGED <<files, clock, pidFile, config, nextId, args, reply, returned>>

(* `queuectl worker stop`, cli.ts lines 86-98: a new WorkerManager has no *)
(* worker, so stop, lines 62-66, reports that and returns.                *)
WorkerStopCmd ==
    /\ task[Client].pc = "ready"
    /\ args' = [op |-> "stop"]
    /\ ClientReturns(Reply("stop", TRUE, NoJob, NoJob))
    /\ UNCHANGED <<files, clock, pidFile, config, nextId, worker, returned>>

(* `queuectl worker start` in a second process: start, lines 33-39.  The *)
(* pid file is there and start throws, or resetStuckJobs is called.       *)
SecondStart ==
    /\ task[Client].pc = "ready"
    /\ args' = [op |-> "start"]
    /\ IF isRunning
       THEN ClientReturns(Reply("start", FALSE, NoJob, NoJob))
       ELSE /\ task' = [task EXCEPT ![Client] = Local("reset", "check")]
            /\ UNCHANGED <<reply, running>>
    /\ UNCHANGED <<files, clock, pidFile, config, nextId, worker, returned>>

(* start, lines 44-51, in the second process: its workers are created    *)
(* and its pid file is written; what its workers do is not followed.      *)
SecondSpawn ==
    /\ task[Client].pc = "spawn"
    /\ task' = [task EXCEPT ![Client] = Local("pool", "none")]
    /\ pidFile' = ClientPid
    /\ UNCHANGED <<files, clock, config, nextId, worker, args, reply, returned, running>>

(* `rm data/workers.pid`, QUICKSTART.md lines 233-234. *)
RemovePidFile ==
    /\ task[Client].pc = "ready"
    /\ PoolDown
    /\ pidFile # NoPid
    /\ pidFile' = NoPid
    /\ UNCHANGED <<files, clock, config, nextId, task, worker, args, reply, returned,
                   running>>

(* ------------------------- the command lines -------------------------- *)
BlankCommands == {Command(0, 0, 0, 0), Command(2, 0, 0, 0)}
LongCommands == {Command(0, CmdCeiling + 1, 0, 0), Command(CmdCeiling, 1, 0, 1)}
RunCommands == {Command(0, 2, 0, 0), Command(0, 2, 0, 1)}
EdgeCommands == {Command(1, 2, 1, 0), Command(0, CmdCeiling, 0, 1)}
Commands == BlankCommands \cup LongCommands \cup RunCommands \cup EdgeCommands
Overrides == {Undefined} \cup 0..MaxOverride

(* ------------------------- the stores at hand ------------------------- *)
(* A job as enqueue and one worker have left it in the given state: with  *)
(* the default limit a failing command has failed once and waits for its  *)
(* retry; with a limit of 1 it is dead.                                   *)
StoredJob(id, command, state, created) ==
    LET new == NewJob(id, command, Undefined, DefaultMaxRetries, created)
        one == NewJob(id, command, 1, DefaultMaxRetries, created)
        msg == execute(command).error
    IN CASE state = JobState.PENDING -> new
         [] state = JobState.PROCESSING -> Merge(new, MarkProcessing(1))
         [] state = JobState.COMPLETED -> Merge(new, MarkCompleted(execute(command).output))
         [] state = JobState.FAILED ->
              Merge(new, FailureUpdate(new, DefaultBackoffBase, msg, created))
         [] state = JobState.DEAD ->
              Merge(one, FailureUpdate(one, DefaultBackoffBase, msg, created))

StatesOf(command) ==
    IF execute(command).success
    THEN {JobState.PENDING, JobState.PROCESSING, JobState.COMPLETED}
    ELSE {JobState.PENDING, JobState.PROCESSING, JobState.FAILED, JobState.DEAD}

JobsAt(id, created) ==
    {StoredJob(id, c, st, created) : <<c, st>> \in
        {cs \in RunCommands \X {JobState[k] : k \in DOMAIN JobState} : cs[2] \in StatesOf(cs[1])}}

(* The collections of up to MaxJobs jobs, in the order of their creation. *)
RECURSIVE StoresFrom(_, _, _)
StoresFrom(id, created, n) ==
    IF n = 0 THEN {<<>>}
    ELSE {<<>>} \cup
         UNION {{<<j>> \o rest : j \in JobsAt(id, c), rest \in StoresFrom(id + 1, c, n - 1)} :
                c \in created..(MaxTime - 1)}

Stores == StoresFrom(1, 0, MaxJobs)

(* The directory holds one of the stores; no process runs on it. *)
InitLeftover ==
    /\ jobsFile \in Stores
    /\ tmpFile = NoFile
    /\ lockFile = NoPid
    /\ pidFile = NoPid
    /\ clock = IF jobsFile = <<>> THEN 0 ELSE jobsFile[Len(jobsFile)].created_at
    /\ config = [max_retries |-> DefaultMaxRetries, backoff_base |-> DefaultBackoffBase,
                 graceful_shutdown_timeout |-> DefaultShutdownTimeout]
    /\ nextId = Len(jobsFile) + 1
    /\ task = [t \in Tasks |-> IF t = Client THEN Local("ready", "none")
                               ELSE IF t = Main THEN Local("down", "none")
                               ELSE Local("off", "none")]
    /\ worker = [w \in Workers |-> NewWorker]
    /\ args = NoArgs
    /\ reply = NoArgs
    /\ returned = {}
    /\ running = NoTask

(* --------------------------- specifications --------------------------- *)
Storage ==
    \E t \in Tasks : LockCheck(t) \/ LockCreate(t) \/ WriteTmp(t) \/ Rename(t)

WorkerStep ==
    \E w \in Workers :
        \/ GetNextJob(w) \/ ProcessGetJob(w) \/ MarkRead(w) \/ ExecuteDone(w)
        \/ CompleteRead(w) \/ FailureGetJob(w) \/ FailureRead(w)

(* One pool of one or more workers and the command line client, each a    *)
(* process of its own, work on the same data directory within one second. *)
Next ==
    \/ Storage
    \/ \E t \in Tasks : LockWait(t) \/ RenameFails(t)
    \/ \E count \in 1..NumWorkers : StartPool(count)
    \/ ResetStuckJobs(Main)
    \/ SpawnWorkers
    \/ WorkerStep
    \/ \E c \in RunCommands, r \in {Undefined, 1} : Enqueue(c, r)
    \/ AddRead

Spec == Init /\ [][Next]_vars

(* Jobs are enqueued and the configuration is set first; then a pool of   *)
(* one worker runs and no other process touches the directory.            *)
SoloNext ==
    \/ task[Main].pc = "up" /\ Tick
    \/ Storage
    \/ /\ task[Main].pc = "down"
       /\ \/ \E c \in RunCommands, r \in Overrides : Enqueue(c, r)
          \/ AddRead
          \/ \E v \in 0..MaxBase : ConfigSet("backoff_base", v)
    \/ task[Client].pc = "ready" /\ StartPool(1)
    \/ ResetStuckJobs(Main)
    \/ SpawnWorkers
    \/ WorkerStep

SoloSpec == Init /\ [][SoloNext]_vars

(* The command line client alone: no pool runs. *)
ClientNext ==
    \/ \E t \in {Client} : LockCheck(t) \/ LockCreate(t) \/ WriteTmp(t) \/ Rename(t)
    \/ \E c \in Commands, r \in Overrides : Enqueue(c, r) \/ EnqueueRejected(c, r)
    \/ AddRead
    \/ ReadBack \/ ReadBackGetJob
    \/ \E v \in 0..MaxOverride : ConfigSet("max_retries", v)
    \/ \E id \in 1..MaxJobs : DlqRetry(id)
    \/ DlqGetJob

ClientSpec == Init /\ [][ClientNext]_vars

(* On a store as earlier runs have left it, the client retries jobs from *)
(* the dead letter queue; then a pool of one worker runs alone.           *)
LeftoverNext ==
    \/ task[Main].pc = "up" /\ Tick
    \/ Storage
    \/ /\ task[Main].pc = "down"
       /\ \/ \E id \in 1..(MaxJobs + 1) : DlqRetry(id)
          \/ DlqGetJob
          \/ DlqRead
    \/ task[Client].pc = "ready" /\ StartPool(1)
    \/ ResetStuckJobs(Main)
    \/ ResetRead(Main)
    \/ SpawnWorkers
    \/ WorkerStep

LeftoverSpec == InitLeftover /\ [][LeftoverNext]_vars

(* Jobs are enqueued while no pool runs; a pool runs alone, is killed at  *)
(* any moment, and is started again, with or without the pid file of the  *)
(* killed pool removed by hand.                                           *)
RestartNext ==
    \/ Storage
    \/ \E t \in Tasks : LockWait(t)
    \/ /\ PoolDown
       /\ \/ \E c \in RunCommands : Enqueue(c, Undefined)
          \/ AddRead
          \/ RemovePidFile
    \/ task[Client].pc = "ready" /\ (\E count \in 1..NumWorkers : StartPool(count))
    \/ task[Client].pc = "ready" /\ StartRefused
    \/ ResetStuckJobs(Main)
    \/ ResetRead(Main)
    \/ SpawnWorkers
    \/ StartFails
    \/ WorkerStep
    \/ Crash

RestartSpec == Init /\ [][RestartNext]_vars

(* On a store of one job as an earlier run has left it, `queuectl worker  *)
(* start` is run in two processes at any moments.                         *)
TwoStartsNext ==
    \/ Storage
    \/ \E t \in Tasks : LockWait(t) \/ RenameFails(t)
    \/ \E count \in 1..NumWorkers : StartPool(count)
    \/ StartRefused
    \/ ResetStuckJobs(Main) \/ ResetStuckJobs(Client)
    \/ ResetRead(Main) \/ ResetRead(Client)
    \/ SpawnWorkers
    \/ SecondStart
    \/ SecondSpawn
    \/ WorkerStep

(* The directory holds at most one job. *)
InitOneJob == InitLeftover /\ Len(jobsFile) <= 1

TwoStartsSpec == InitOneJob /\ [][TwoStartsNext]_vars

(* Jobs are enqueued and the shutdown timeout is set first; then a pool   *)
(* runs alone and is told to stop by a signal at any moment.              *)
StopNext ==
    \/ task[Main].pc = "stopping" /\ Tick
    \/ Storage
    \/ /\ task[Main].pc = "down"
       /\ \/ \E c \in RunCommands : Enqueue(c, Undefined)
          \/ AddRead
          \/ ConfigSet("graceful_shutdown_timeout", 0)
    \/ task[Client].pc = "ready" /\ (\E count \in 1..NumWorkers : StartPool(count))
    \/ ResetStuckJobs(Main)
    \/ SpawnWorkers
    \/ WorkerStep
    \/ Signal
    \/ StopDone

StopSpec == Init /\ [][StopNext]_vars

(* Jobs are enqueued first; then a pool runs alone, the client runs       *)
(* `queuectl worker stop` at any moment, and a signal stops the pool at   *)
(* any moment.                                                            *)
StopCmdNext ==
    \/ Storage
    \/ /\ task[Main].pc = "down"
       /\ \/ \E c \in RunCommands : Enqueue(c, Undefined)
          \/ AddRead
    \/ task[Client].pc = "ready" /\ (\E count \in 1..NumWorkers : StartPool(count))
    \/ ResetStuckJobs(Main)
    \/ SpawnWorkers
    \/ WorkerStep
    \/ WorkerStopCmd
    \/ Signal
    \/ StopDone

StopCmdSpec == Init /\ [][StopCmdNext]_vars

(* Time passes while the workers have nothing but failed jobs waiting for *)
(* their retry time: they poll on, every worker_poll_interval, until new  *)
(* Date() has reached one.  What the workers do takes no time on this     *)
(* clock of whole seconds.                                                *)
WaitForRetry ==
    /\ \A w \in Workers : task[w].pc \in {"next", "off"}
    /\ getNextPendingJob(jobsFile, clock) = NoJob
    /\ \E i \in 1..Len(jobsFile) :
          jobsFile[i].state = JobState.FAILED /\ jobsFile[i].next_retry_at > clock
    /\ clock' = clock + 1
    /\ UNCHANGED <<files, pidFile, config, nextId, task, worker, args, reply, returned,
                   running>>

(* The steps of worker w. *)
WorkerTurn(w) ==
    \/ LockCheck(w) \/ LockCreate(w) \/ WriteTmp(w) \/ Rename(w)
    \/ GetNextJob(w) \/ ProcessGetJob(w) \/ MarkRead(w) \/ ExecuteDone(w)
    \/ CompleteRead(w) \/ FailureGetJob(w) \/ FailureRead(w)

(* Jobs are enqueued with the default configuration; then a pool runs     *)
(* alone for as long as it takes, without a crash and without a stop.     *)
LiveNext ==
    \/ WaitForRetry
    \/ \E t \in {Client, Main} : LockCheck(t) \/ LockCreate(t) \/ WriteTmp(t) \/ Rename(t)
    \/ /\ task[Main].pc = "down"
       /\ \/ \E c \in RunCommands : Enqueue(c, Undefined)
          \/ AddRead
    \/ task[Client].pc = "ready" /\ (\E count \in 1..NumWorkers : StartPool(count))
    \/ ResetStuckJobs(Main)
    \/ SpawnWorkers
    \/ \E w \in Workers : WorkerTurn(w)

(* The event loop runs every callback that is ready, a command that was   *)
(* started ends, and time passes.                                         *)
LiveFairness ==
    /\ \A w \in Workers : SF_vars(WorkerTurn(w))
    /\ WF_vars(WaitForRetry)

LiveSpec == Init /\ [][LiveNext]_vars /\ LiveFairness

(* On a store as earlier runs have left it, the client asks for the      *)
(* status; no other process runs.                                         *)
StatusNext ==
    \/ \E t \in {Client} : LockCheck(t) \/ LockCreate(t)
    \/ Status
    \/ StatusRead

StatusSpec == InitLeftover /\ [][StatusNext]_vars

(* ------------------------------ claims -------------------------------- *)
JobIds == 1..MaxJobs

Stored(id) == Find(jobsFile, id)

StoredNext(id) == Find(jobsFile', id)

Executing(w) == task[w].pc = "exec"

StartsExecuting(w) == task[w].pc # "exec" /\ task'[w].pc = "exec"

(* writeJobs of task t replaces jobs.json in this step. *)
Writes(t) == task[t].io = "tmp" /\ tmpFile.exists /\ task'[t].io # "tmp"

(* C1: no job is held (marked Processing and being executed) by two       *)
(* workers at the same time.                                              *)
C1_NoJobHeldTwice ==
    \A w1, w2 \in Workers :
        (w1 # w2 /\ Executing(w1) /\ Executing(w2)) => task[w1].jobId # task[w2].jobId

(* C2: once enqueue has returned a job, its record stays in the store in  *)
(* every later state.                                                     *)
C2_EnqueuedJobStays == \A id \in returned : Stored(id).id = id

(* C3: at every moment at most one task is inside a critical section of   *)
(* the store lock.                                                        *)
C3_OneLockHolder ==
    \A t, u \in Tasks : (InCriticalSection(t) /\ InCriticalSection(u)) => t = u

(* C4: between the read and the write of one addJob or updateJob no other *)
(* operation writes the job file.                                         *)
C4_NoWriteBetweenReadAndWrite ==
    [][\A t, u \in Tasks :
         (t # u /\ task[t].pc \in WritePcs /\ task'[t].pc \in WritePcs) => ~Writes(u)]_vars

(* C5: once a job's stored state is Completed, no step of a worker        *)
(* changes its state again and no worker starts its command again.        *)
C5_CompletedIsTerminal ==
    [][\A id \in JobIds :
         (Stored(id).id = id /\ Stored(id).state = JobState.COMPLETED) =>
            \A w \in Workers :
               /\ Writes(w) => StoredNext(id).state = JobState.COMPLETED
               /\ StartsExecuting(w) => task'[w].jobId # id]_vars

AlwaysFails(j) == j.command.exit # 0

(* C6: for every max_retries >= 0 a job whose command always fails is in  *)
(* Dead only with attempts == max_retries, and once Dead it stays out of  *)
(* the Pending and Failed states and of the next-job selection.           *)
C6_DeadAtMaxRetries ==
    /\ [](\A id \in JobIds :
            (Stored(id).id = id /\ AlwaysFails(Stored(id))
               /\ Stored(id).state = JobState.DEAD)
            => Stored(id).attempts = Stored(id).max_retries)
    /\ [][\A id \in JobIds :
            (Stored(id).id = id /\ AlwaysFails(Stored(id))
               /\ Stored(id).state = JobState.DEAD)
            => /\ StoredNext(id).id = id
               /\ StoredNext(id).state = JobState.DEAD
               /\ getNextPendingJob(jobsFile', clock').id # id]_vars

(* The backoff delay as the claim words it: base ^ attempts. *)
BackoffPower(base, attempts) ==
    CASE attempts = 1 -> base
      [] attempts = 2 -> base * base
      [] attempts = 3 -> base * base * base
      [] attempts = 4 -> base * base * base * base

(* handleJobFailure of worker w has read the job and decides in this step. *)
HandlesFailure(w) == task[w].pc = "failG" /\ task[w].io = "locked" /\ task'[w].pc = "failR"

(* C7: when failure handling leaves attempts + 1 below max_retries, the   *)
(* job (Processing until then) becomes Failed with worker_id cleared,     *)
(* attempts incremented by one and next_retry_at = the time of failure    *)
(* handling + backoff_base ^ (attempts after the increment).              *)
C7_FailedWithBackoff ==
    [][\A w \in Workers :
         LET id == task[w].jobId
             j == Stored(id)
         IN /\ (HandlesFailure(w) /\ j.attempts + 1 < j.max_retries) =>
                 /\ j.state = JobState.PROCESSING
                 /\ task'[w].updates.state = JobState.FAILED
                 /\ task'[w].updates.attempts = j.attempts + 1
                 /\ task'[w].updates.next_retry_at =
                        clock + BackoffPower(config.backoff_base, j.attempts + 1)
            /\ (Writes(w) /\ task[w].pc = "failW"
                  /\ task[w].updates.state = JobState.FAILED) =>
                 /\ StoredNext(id).state = JobState.FAILED
                 /\ StoredNext(id).worker_id = NoWorker
                 /\ StoredNext(id).attempts = j.attempts + 1
                 /\ StoredNext(id).attempts = task[w].updates.attempts
                 /\ StoredNext(id).next_retry_at = task[w].updates.next_retry_at]_vars

(* A job failed a second time: Failed, attempts 2, retry 2^2 seconds on. *)
C7_Witness ==
    \E id \in JobIds :
        /\ Stored(id).id = id
        /\ Stored(id).state = JobState.FAILED
        /\ Stored(id).attempts = 2
        /\ config.backoff_base = 2
        /\ Stored(id).next_retry_at = clock + 4

WaitsForRetry(j) ==
    j.id # 0 /\ j.state = JobState.FAILED /\ j.next_retry_at > clock

(* C8: a job that failure handling put in Failed with next_retry_at = t   *)
(* is not marked Processing and its command is not started before t.      *)
C8_NotBeforeRetryTime ==
    [][\A id \in JobIds :
         WaitsForRetry(Stored(id)) =>
            \A w \in Workers :
               /\ (Writes(w) /\ task[w].pc = "markW" /\ task[w].jobId = id) =>
                     StoredNext(id).state # JobState.PROCESSING
               /\ StartsExecuting(w) => task'[w].jobId # id]_vars

(* C9: the job read back right after a successful enqueue is Pending,     *)
(* has attempts 0, the command given and max_retries equal to the         *)
(* override, or to the configured max_retries when there is none.         *)
C9_EnqueueReadBack ==
    reply.op = "readback" =>
        /\ reply.found.id = reply.job.id
        /\ reply.found.state = JobState.PENDING
        /\ reply.found.attempts = 0
        /\ reply.found.command = args.command
        /\ reply.found.max_retries =
              (IF args.maxRetries = Undefined THEN config.max_retries ELSE args.maxRetries)

(* A read-back of a job enqueued with an override that differs from the   *)
(* configured value.                                                      *)
C9_Witness ==
    /\ reply.op = "readback"
    /\ args.maxRetries # Undefined
    /\ args.maxRetries # config.max_retries
    /\ reply.found.max_retries = args.maxRetries

Blank(c) == c.body = 0

TooLong(c) == c.lead + c.body + c.trail > 10000

EnqueueCalled ==
    task[Client].pc = "ready" /\ args'.op = "enqueue" /\ (args' # args \/ reply' # reply)

(* C10: enqueue of an empty, blank or too long command fails, and leaves  *)
(* the job collection and every other file as they were; no stored job    *)
(* has such a command.                                                    *)
C10_InvalidCommandRejected ==
    /\ [][(EnqueueCalled /\ (Blank(args'.command) \/ TooLong(args'.command))) =>
            /\ reply'.op = "enqueue" /\ ~reply'.ok
            /\ task'[Client].pc = "ready"
            /\ UNCHANGED <<jobsFile, tmpFile, lockFile, nextId, returned>>]_vars
    /\ [](\A i \in 1..Len(jobsFile) :
            ~Blank(jobsFile[i].command) /\ ~TooLong(jobsFile[i].command))

(* A blank command was refused while the store holds a job. *)
C10_Witness ==
    /\ reply.op = "enqueue" /\ ~reply.ok
    /\ args.op = "enqueue" /\ args.command.lead > 0 /\ Blank(args.command)
    /\ jobsFile # <<>>

(* retryDeadJob returns to the client in this step. *)
DlqReturns == task[Client].pc \in {"dlqG", "dlqR", "dlqW"} /\ task'[Client].pc = "ready"

Retried(j) ==
    [j EXCEPT !.state = JobState.PENDING, !.attempts = 0, !.error_message = "none",
              !.next_retry_at = NoTime]

Succeeds(j) == execute(j.command).success

(* C13: with one worker and no other process at work, a job whose command *)
(* exits with code 0 changes state only from Pending to Processing and    *)
(* from Processing to Completed; it becomes Completed with the output of  *)
(* its command, attempts 0 and no worker_id, and stays as it is then.     *)
C13_SuccessPath ==
    [][\A id \in {i \in JobIds : jobsFile' # jobsFile} :
         (Stored(id).id # 0 /\ Succeeds(Stored(id)))
         => /\ StoredNext(id).state # Stored(id).state
               => \/ /\ Stored(id).state = JobState.PENDING
                     /\ StoredNext(id).state = JobState.PROCESSING
                  \/ /\ Stored(id).state = JobState.PROCESSING
                     /\ StoredNext(id).state = JobState.COMPLETED
                     /\ StoredNext(id).output = execute(Stored(id).command).output
                     /\ StoredNext(id).attempts = 0
                     /\ StoredNext(id).worker_id = NoWorker
            /\ Stored(id).state = JobState.COMPLETED => StoredNext(id) = Stored(id)]_vars

(* C13, reached: the worker has completed a job and is idle again. *)
C13_Witness ==
    \E id \in JobIds :
        /\ Stored(id).id # 0
        /\ Stored(id).state = JobState.COMPLETED
        /\ Stored(id).output = Stdout(Stored(id).command)
        /\ task[1].pc = "next"

Eligible(j) ==
    /\ j.state = JobState.PENDING \/ j.state = JobState.FAILED
    /\ j.next_retry_at = NoTime \/ j.next_retry_at <= clock

EligibleJobs == {i \in 1..Len(jobsFile) : Eligible(jobsFile[i])}

(* getNextJob of worker w returns in this step. *)
GetNextJobReturns(w) ==
    task[w].pc = "next" /\ task[w].io = "locked" /\ task'[w] # task[w]

(* C14: getNextPendingJob returns null exactly when no job is Pending or  *)
(* Failed with next_retry_at unset or not after now; otherwise it returns *)
(* one of these jobs, and none of them was created strictly before it.    *)
C14_NextPendingJob ==
    [][\A w \in Workers :
         GetNextJobReturns(w) =>
            LET id == task'[w].jobId
            IN /\ id = 0 <=> EligibleJobs = {}
               /\ id # 0 =>
                    /\ Stored(id).id = id
                    /\ Eligible(Stored(id))
                    /\ \A i \in EligibleJobs :
                          jobsFile[i].created_at >= Stored(id).created_at]_vars

(* C14, reached: a failed job whose retry time has passed was returned    *)
(* while a pending job created after it is in the store.                  *)
C14_Witness ==
    \E w \in Workers, id, newer \in JobIds :
        /\ task[w].pc = "get" /\ task[w].jobId = id
        /\ Stored(id).id = id /\ Stored(newer).id = newer
        /\ Stored(id).state = JobState.FAILED
        /\ Stored(id).next_retry_at <= clock
        /\ Stored(newer).state = JobState.PENDING
        /\ Stored(newer).next_retry_at = NoTime
        /\ Stored(id).created_at < Stored(newer).created_at

(* C12: after the pool process was killed with a job in Processing, the   *)
(* next start on the directory is not refused, and when the workers of    *)
(* the new pool are created no job is Processing any more.                *)
C12_RestartResetsStuckJobs ==
    /\ [][(task[Main].pc = "crashed" /\ Stuck(jobsFile) # <<>>
           /\ task'[Main].pc # "crashed")
          => task'[Main].pc = "reset"]_vars
    /\ [][(task[Main].pc = "spawn" /\ task'[Main].pc = "up")
          => Stuck(jobsFile) = <<>>]_vars

(* The pool process runs: it has passed the check of start, lines 33-35,  *)
(* and has not ended.                                                     *)
PoolRuns == task[Main].pc \in {"reset", "resetR", "resetW", "spawn", "up", "stopping"}

(* The start of the second process has passed the check of lines 33-35. *)
SecondStartPassed == task[Client].pc \in {"reset", "resetR", "resetW", "spawn", "pool"}

(* C15: while a pool runs on the directory, from its passing the          *)
(* already-running check on, no second start passes that check: it        *)
(* resets no job and creates no worker.                                   *)
C15_OnePoolPerDirectory == PoolRuns => ~SecondStartPassed

(* Worker.stop was called on worker w. *)
Stopped(w) == w \in Started /\ task[Main].pc = "stopping" /\ ~worker[w].isRunning

(* Worker w, stopped, has taken up a job since: line 265 has set the      *)
(* state that stop had set to stopping back to busy.                      *)
TookJobAfterStop(w) == Stopped(w) /\ worker[w].state = "busy"

MarksProcessing(w) == task[w].pc = "markW" /\ Writes(w)

(* C16: after Worker.stop() the worker marks no further job Processing    *)
(* and starts executing none.                                             *)
C16_NoJobAfterStop ==
    [][\A w \in Workers :
         TookJobAfterStop(w) => ~MarksProcessing(w) /\ ~StartsExecuting(w)]_vars

(* WorkerManager.stop returns and the pool process ends in this step. *)
StopReturns == task[Main].pc = "stopping" /\ task'[Main].pc = "exited"

TimedOut == clock - task[Main].since > config.graceful_shutdown_timeout

(* Worker w was executing a job when Worker.stop was called, and the job  *)
(* or the write of its outcome is still under way.                        *)
FinishingAfterStop(w) ==
    /\ Stopped(w)
    /\ worker[w].state = "stopping"
    /\ task[w].pc \in {"exec", "compR", "compW", "failG", "failR", "failW"}

Outcomes == {JobState.COMPLETED, JobState.FAILED, JobState.DEAD}

(* C17: when a worker is executing a job at the call of stop() and the    *)
(* job finishes within graceful_shutdown_timeout, WorkerManager.stop does *)
(* not return before the worker is through with the job; and when the     *)
(* worker is through, the outcome of the job is in the store and the pid  *)
(* file is still there.                                                   *)
C17_OutcomeBeforeStopReturns ==
    [][\A w \in Workers :
         FinishingAfterStop(w) =>
            /\ StopReturns => TimedOut
            /\ (task'[w].pc = "off" /\ ~StopReturns)
               => /\ StoredNext(task[w].jobId).state \in Outcomes
                  /\ pidFile' = PoolPid]_vars

(* C17, reached: the one worker of a pool was stopped while it executed a *)
(* job, has completed it since, and WorkerManager.stop has not returned.  *)
C17_Witness ==
    /\ task[Main].pc = "stopping" /\ task[Main].count = 1
    /\ worker[1].state = "stopping"
    /\ task[1].pc = "off" /\ task[1].jobId # 0
    /\ Stored(task[1].jobId).state = JobState.COMPLETED
    /\ pidFile = PoolPid

(* `queuectl worker stop` returns to the shell in this step. *)
StopCmdReturns == task[Client].pc = "ready" /\ reply' # reply /\ reply'.op = "stop"

(* C19: when `queuectl worker stop` has run while a pool is up, no worker *)
(* of the pool polls for jobs any more and the pid file is gone.          *)
C19_StopCommandStopsPool ==
    [][(StopCmdReturns /\ task[Main].pc = "up")
       => /\ pidFile' = NoPid
          /\ \A w \in Started : ~worker'[w].isRunning]_vars

(* The job was enqueued with max_retries 3 while backoff_base is 2. *)
DefaultRetries(j) ==
    j.max_retries = DefaultMaxRetries /\ config.backoff_base = DefaultBackoffBase

(* C20: with max_retries 3 and backoff_base 2 a job that always fails is  *)
(* retried three times, 2, 4 and 8 seconds after its failures, before it  *)
(* is moved to the dead letter queue: each of its first three failures    *)
(* leaves it Failed with a retry time that is the next of these delays    *)
(* after the moment the failure was handled, and it becomes Dead only     *)
(* with three failures on record.                                         *)
C20_ThreeRetriesBeforeDead ==
    [][\A id \in {i \in JobIds : jobsFile' # jobsFile} :
         LET j == Stored(id)
             k == StoredNext(id)
         IN (j.id # 0 /\ AlwaysFails(j) /\ DefaultRetries(j)
             /\ j.state = JobState.PROCESSING /\ k.state # j.state)
            => IF j.attempts < DefaultMaxRetries
               THEN /\ k.state = JobState.FAILED
                    /\ k.attempts = j.attempts + 1
                    /\ k.next_retry_at - Pow(DefaultBackoffBase, k.attempts) \in 0..clock
               ELSE k.state = JobState.DEAD]_vars

Terminal(j) == j.id # 0 /\ (j.state = JobState.COMPLETED \/ j.state = JobState.DEAD)

(* C18: while a pool of at least one worker runs, with fair scheduling,   *)
(* commands that end, no crash and no further enqueue or retry from the   *)
(* dead letter queue, every job in the store is eventually Completed or   *)
(* Dead.                                                                  *)
C18_EveryJobEnds ==
    \A id \in JobIds :
        (task[Main].pc = "up" /\ Stored(id).id = id) ~> Terminal(Stored(id))

(* C18, reached: under a pool of more than one worker one job is          *)
(* Completed and another, after its retries, is Dead.                     *)
C18_Witness ==
    /\ task[Main].pc = "up" /\ task[Main].count > 1
    /\ \E id, other \in JobIds :
          /\ Stored(id).id = id /\ Stored(other).id = other
          /\ Stored(id).state = JobState.COMPLETED
          /\ Stored(other).state = JobState.DEAD
          /\ Stored(other).attempts = DefaultMaxRetries

InState(st) == Cardinality({i \in 1..Len(jobsFile) : jobsFile[i].state = st})

(* C21: the status summary reports for each state the number of jobs in   *)
(* that state, and its total is the number of jobs in the store.          *)
C21_StatusCounts ==
    (reply.op = "status" /\ task[Client].pc = "ready")
    => /\ reply.stats.pending = InState(JobState.PENDING)
       /\ reply.stats.processing = InState(JobState.PROCESSING)
       /\ reply.stats.completed = InState(JobState.COMPLETED)
       /\ reply.stats.failed = InState(JobState.FAILED)
       /\ reply.stats.dead = InState(JobState.DEAD)
       /\ reply.total = Len(jobsFile)

(* ------------------------- a malformed store -------------------------- *)
(* No store operation is in progress: no chain of the pool holds the      *)
(* event loop or waits for the lock, and the client has returned.         *)
Quiescent ==
    /\ running = NoTask
    /\ task[Client].pc = "ready"
    /\ \A t \in Tasks : task[t].io \notin {"wait", "create", "locked", "tmp"}

(* jobs.json is damaged from outside while no store operation runs. *)
Corrupt ==
    /\ Quiescent
    /\ jobsFile # Garbled
    /\ jobsFile' = Garbled
    /\ UNCHANGED <<tmpFile, lockFile, pidFile, clock, config, nextId, task, worker, args,
                   reply, returned, running>>

(* A pool of one worker and the client work on a directory whose          *)
(* jobs.json is damaged at some moment.                                   *)
CorruptNext ==
    \/ Storage
    \/ \E t \in Tasks : ReadFails(t)
    \/ Corrupt
    \/ \E c \in RunCommands : Enqueue(c, 1)
    \/ AddRead
    \/ Status
    \/ StatusRead
    \/ \E id \in 1..MaxJobs : DlqRetry(id)
    \/ DlqGetJob
    \/ DlqRead
    \/ task[Client].pc = "ready" /\ StartPool(1)
    \/ ResetStuckJobs(Main)
    \/ SpawnWorkers
    \/ WorkerStep

CorruptSpec == Init /\ [][CorruptNext]_vars

(* The store operation of task t ends with an error for its caller. *)
FailsWithError(t) ==
    IF t = Client THEN task'[t].pc = "ready" /\ reply'.op = args.op /\ ~reply'.ok
    ELSE IF t = Main THEN task'[t].pc = "failed"
    ELSE task'[t].pc \in {"next", "off", "failG"} /\ task'[t].io \in {"check", "none"}

RaceNext ==
    \/ Storage
    \/ \E t \in Tasks : LockWait(t) \/ RenameFails(t)
    \/ /\ task[Main].pc = "down"
       /\ \/ nextId = 1 /\ (\E c \in RunCommands : Enqueue(c, 1))
          \/ AddRead
    \/ task[Client].pc = "ready" /\ (\E count \in 1..NumWorkers : StartPool(count))
    \/ ResetStuckJobs(Main)
    \/ SpawnWorkers
    \/ WorkerStep
    \/ ~(reply.op = "retry" /\ reply.ok) /\ (\E id \in 1..MaxJobs : DlqRetry(id))
    \/ DlqGetJob
    \/ DlqRead

RaceSpec == Init /\ [][RaceNext]_vars

(* C23: every stored job has worker_id set if and only if its state is    *)
(* Processing.                                                            *)
C23_WorkerIdIffProcessing ==
    \A i \in 1..Len(jobsFile) :
        (jobsFile[i].worker_id # NoWorker) <=> (jobsFile[i].state = JobState.PROCESSING)

(* C24: every stored job has next_retry_at set if and only if its state   *)
(* is Failed: it is unset on a job that has been claimed again            *)
(* (Processing) and on a Completed or Dead job.                           *)
C24_RetryTimeIffFailed ==
    \A i \in 1..Len(jobsFile) :
        (jobsFile[i].next_retry_at # NoTime) <=> (jobsFile[i].state = JobState.FAILED)

(* Task t is renaming the collection written by the operation at pc. *)
Renames(t, pc) == task[t].pc = pc /\ task[t].io = "tmp"

(* C25: whenever the job file changes, the attempts of every stored job   *)
(* stay as they are, or go to 0 in the write of a dlq retry, or go up by  *)
(* exactly 1 in the write of a worker's failure handling.                 *)
C25_AttemptsMonotonic ==
    [][\A id \in {i \in JobIds : jobsFile' # jobsFile} :
          (Stored(id).id # 0 /\ StoredNext(id).id # 0)
          => \/ StoredNext(id).attempts = Stored(id).attempts
             \/ StoredNext(id).attempts = 0 /\ Renames(Client, "dlqW")
             \/ /\ StoredNext(id).attempts = Stored(id).attempts + 1
                /\ \E w \in Workers : Renames(w, "failW")]_vars

(* C26: every stored job has attempts <= max_retries, with equality only  *)
(* when it is Dead.                                                       *)
C26_AttemptsWithinLimit ==
    \A i \in 1..Len(jobsFile) :
        /\ jobsFile[i].attempts <= jobsFile[i].max_retries
        /\ jobsFile[i].attempts = jobsFile[i].max_retries
              => jobsFile[i].state = JobState.DEAD

(* C27: a stored Dead job stays Dead in every step except the write of a  *)
(* dlq retry, which makes it Pending; no worker's write changes it.       *)
C27_DeadIsTerminal ==
    [][\A id \in {i \in JobIds : jobsFile' # jobsFile} :
          (Stored(id).id # 0 /\ Stored(id).state = JobState.DEAD)
          => \/ StoredNext(id) = Stored(id)
             \/ /\ Renames(Client, "dlqW")
                /\ StoredNext(id).state = JobState.PENDING]_vars

(* ------------------------- the lock timeout --------------------------- *)
(* The client enqueues two jobs and asks for the status at any moment     *)
(* while a pool of one worker runs; a process that finds jobs.lock taken sleeps *)
(* and gives up after the lock timeout.                                   *)
TimeoutNext ==
    \/ Storage
    \/ \E t \in Tasks : LockWait(t) \/ LockTimeout(t) \/ RenameFails(t)
    \/ ClientLockWait
    \/ LockSleep
    \/ nextId <= 2 /\ (\E c \in RunCommands : Enqueue(c, 1))
    \/ AddRead
    \/ Status
    \/ StatusRead
    \/ task[Client].pc = "ready" /\ StartPool(1)
    \/ ResetStuckJobs(Main)
    \/ SpawnWorkers
    \/ WorkerStep

TimeoutSpec == Init /\ [][TimeoutNext]_vars

(* acquireLock of task t throws the timeout error in this step. *)
TimesOut(t) ==
    /\ task[t].io = "wait"
    /\ task[t].since # NoTime
    /\ lockFile # NoPid
    /\ clock - task[t].since > LockTimeoutSecs
    /\ task'[t].io # "wait"

(* C28: a store operation whose lock acquisition times out leaves the job *)
(* file and the lock file as they are: the holder's marker is still there *)
(* when the operation has failed.                                         *)
C28_TimeoutLeavesLock ==
    [][\A t \in Tasks : TimesOut(t) => (lockFile' = lockFile /\ jobsFile' = jobsFile)]_vars

(* C29: whenever no task is between the acquireLock and the releaseLock   *)
(* of a readJobs or writeJobs call, the lock file is absent: every call   *)
(* that has taken the lock has released it when it returns or throws.     *)
C29_LockReleased ==
    (\A t \in Tasks : ~InCriticalSection(t)) => lockFile = NoPid

(* C29 witness: enqueue has returned a job, the worker has marked it      *)
(* Processing, the client's status command has failed, no store operation *)
(* is in progress and the lock file is absent.                            *)
C29_Witness ==
    /\ returned # {}
    /\ task[Client].pc = "ready" /\ reply.op = "status" /\ ~reply.ok
    /\ Executing(1)
    /\ Quiescent
    /\ lockFile = NoPid

(* C30: the step in which a worker starts its job's command leaves the    *)
(* lock file absent, and while the command runs the worker takes no step  *)
(* that changes the lock file.                                            *)
C30_NoLockWhileExecuting ==
    [][\A w \in Workers :
          /\ StartsExecuting(w) => lockFile' = NoPid
          /\ (Executing(w) /\ lockFile' # lockFile) => task'[w] = task[w]]_vars

(* C30 witness: the worker's command is running, the lock file was taken  *)
(* by the client in the meantime.                                         *)
C30_Witness ==
    /\ Executing(1)
    /\ lockFile = ClientPid
    /\ InCriticalSection(Client)

(* ------------------------ a crash inside writeJobs -------------------- *)
(* writeJobs, line 86, cut short: the pool process is killed while worker *)
(* w's writeFileSync is writing the temp file, which is left holding the  *)
(* beginning of the text; the other files stay as they are.               *)
CrashWriting(w) ==
    /\ task[Main].pc = "up"
    /\ task[w].io = "locked"
    /\ task[w].pc \in WritePcs
    /\ CanRun(w)
    /\ tmpFile' = File(Garbled)
    /\ running' = NoTask
    /\ task' = [t \in Tasks |->
                  IF t \in Workers THEN Local("off", "none")
                  ELSE IF t = Main THEN Local("crashed", "none")
                  ELSE task[t]]
    /\ worker' = [x \in Workers |-> NewWorker]
    /\ UNCHANGED <<jobsFile, lockFile, clock, pidFile, config, nextId, args, reply, returned>>

(* The client enqueues jobs while a pool of one worker runs; the pool     *)
(* process is killed at any moment, also in the middle of a write.        *)
CrashNext ==
    \/ Storage
    \/ \E t \in Tasks : LockWait(t) \/ RenameFails(t)
    \/ \E c \in RunCommands : Enqueue(c, 1)
    \/ AddRead
    \/ task[Client].pc = "ready" /\ StartPool(1)
    \/ ResetStuckJobs(Main)
    \/ SpawnWorkers
    \/ WorkerStep
    \/ Crash
    \/ \E w \in Workers : CrashWriting(w)

CrashSpec == Init /\ [][CrashNext]_vars

(* The collections handed to a writeJobs call that is in progress. *)
BeingWritten == {task[t].jobs : t \in {x \in Tasks : task[x].pc \in WritePcs}}

InFlightPcs == {"get", "markR", "markW", "exec", "compR", "compW", "failG", "failR", "failW"}

(* C32: in a live pool a worker that polls (is in or before getNextJob)   *)
(* holds no job, and a worker that holds a job is inside processJob for   *)
(* exactly that job: it has at most one job in flight and polls again     *)
(* only when processNextJob has settled.                                  *)
C32_OneJobInFlight ==
    \A w \in Workers :
        task[Main].pc \in {"up", "stopping"} =>
            /\ task[w].pc = "next" =>
                  (worker[w].currentJobId = 0 /\ worker[w].state # "busy")
            /\ worker[w].currentJobId # 0 =>
                  (task[w].pc \in InFlightPcs /\ task[w].jobId = worker[w].currentJobId)
            /\ task[w].pc \in InFlightPcs => worker[w].currentJobId = task[w].jobId

(* C32 witness: worker 1 alone runs a job's command while another job of  *)
(* the store is eligible.                                                 *)
C32_Witness ==
    /\ task[Main].pc = "up"
    /\ Executing(1)
    /\ worker[1].currentJobId = task[1].jobId
    /\ task[2].pc = "off"
    /\ \E i \in EligibleJobs : jobsFile[i].id # task[1].jobId

(* ------------------------ stop, then start again ---------------------- *)
(* The shutdown timeout is set to 0 and jobs are enqueued first; then a   *)
(* pool runs alone, is told to stop by a signal at any moment, and is     *)
(* started again after it has exited.                                     *)
StopStartNext ==
    \/ task[Main].pc = "stopping" /\ Tick
    \/ Storage
    \/ task[Main].pc = "down" /\ ConfigSet("graceful_shutdown_timeout", 0)
    \/ /\ task[Main].pc = "down"
       /\ config.graceful_shutdown_timeout = 0
       /\ \/ \E c \in RunCommands : Enqueue(c, Undefined)
          \/ AddRead
    \/ /\ task[Client].pc = "ready"
       /\ config.graceful_shutdown_timeout = 0
       /\ \E count \in 1..NumWorkers : StartPool(count)
    \/ ResetStuckJobs(Main)
    \/ ResetRead(Main)
    \/ SpawnWorkers
    \/ WorkerStep
    \/ Signal
    \/ StopDone

StopStartSpec == Init /\ [][StopStartNext]_vars

(* Worker w's job was still running when the timeout of stop() passed. *)
Overrun(w) == w \in Started /\ WaitsForJob(w) /\ Executing(w) /\ TimedOut

(* C33: once graceful_shutdown_timeout has passed, stop can return        *)
(* although a worker's command is still running; when it returns, that    *)
(* job is stored Processing and the store is left as it is; and when the  *)
(* next start creates its workers no job is Processing any more.          *)
C33_StopReturnsAtTimeout ==
    [][/\ (task[Main].pc = "stopping" /\ running = NoTask /\ TimedOut) => ENABLED StopDone
       /\ \A w \in Workers :
             (StopReturns /\ Overrun(w))
             => /\ Stored(task[w].jobId).state = JobState.PROCESSING
                /\ jobsFile' = jobsFile
       /\ (task[Main].pc = "spawn" /\ task'[Main].pc = "up")
             => Stuck(jobsFile') = <<>>]_vars

(* C33 witness: the next start's orphan recovery is writing Pending onto  *)
(* the job that a worker of the stopped pool was running when stop gave   *)
(* up waiting.                                                            *)
C33_Witness ==
    /\ task[Main].pc = "resetW"
    /\ \E w \in Workers :
          /\ WaitsForJob(w)
          /\ worker[w].currentJobId = task[Main].jobId
          /\ Stored(task[Main].jobId).state = JobState.PROCESSING

(* ---------------------------------------------------------------------- *)
(* Jobs are enqueued and the shutdown timeout is set first; then a pool   *)
(* of one worker runs alone, is told to stop by a signal at any moment,   *)
(* and further signals reach it while it is stopping.                     *)
SignalsNext ==
    \/ task[Main].pc = "stopping" /\ Tick
    \/ Storage
    \/ /\ task[Main].pc = "down"
       /\ \/ \E c \in RunCommands : Enqueue(c, Undefined)
          \/ AddRead
          \/ ConfigSet("graceful_shutdown_timeout", 0)
    \/ task[Client].pc = "ready" /\ StartPool(1)
    \/ ResetStuckJobs(Main)
    \/ SpawnWorkers
    \/ WorkerStep
    \/ Signal
    \/ SignalAgain
    \/ StopDone

SignalsSpec == Init /\ [][SignalsNext]_vars

ShuttingDown == task[Main].pc = "stopping"

(* C34: however many SIGINT or SIGTERM signals are delivered, the stop    *)
(* path runs once: a signal that arrives while the pool is shutting down  *)
(* starts no second stop (the workers and the start time of the stop are  *)
(* left as they are, isShuttingDown stays set) and does not end the       *)
(* process; the process ends only when every Worker.stop of the first     *)
(* stop has returned, and with the pid file removed.                      *)
C34_StopRunsOnce ==
    [][ShuttingDown =>
          /\ task[Main].isShuttingDown
          /\ task'[Main].pc \in {"stopping", "exited"}
          /\ task'[Main].signals > task[Main].signals =>
                /\ task'[Main] = [task[Main] EXCEPT !.signals = task[Main].signals + 1]
                /\ worker' = worker
                /\ pidFile' = pidFile
          /\ task'[Main].pc = "stopping" => task'[Main].since = task[Main].since
          /\ StopReturns =>
                /\ pidFile' = NoPid
                /\ \A w \in Started : WaitsForJob(w) => TimedOut]_vars

(* C34 witness: a third signal has reached a pool that is still waiting   *)
(* for a job to end, some time after the first one.                       *)
C34_Witness ==
    /\ ShuttingDown
    /\ task[Main].signals = MaxSignals
    /\ clock > task[Main].since
    /\ \E w \in Started : WaitsForJob(w) /\ Executing(w)

(* An error leaves the poll cycle of worker w in this step: acquireLock   *)
(* times out in getNextJob, or in processJob before its try block.        *)
PollCycleError(w) ==
    /\ worker[w].isRunning
    /\ TimesOut(w)
    /\ task[w].pc \in {"next", "get", "markR", "markW"}

(* C35: while a worker is running, an error raised during a poll cycle,   *)
(* by getNextJob or by processJob, adds one to the worker's jobsFailed    *)
(* and the next poll is scheduled.                                        *)
C35_PollErrorCounted ==
    [][\A w \in Workers :
          PollCycleError(w) =>
             /\ worker'[w].jobsFailed = worker[w].jobsFailed + 1
             /\ task'[w].pc = "next" /\ task'[w].io = "check"]_vars

(* C36: a job whose command ended with success in an execution is not     *)
(* recorded Failed or Dead, and its attempts are not incremented, by the  *)
(* worker that ran it, also when the update that records the completion   *)
(* fails.                                                                 *)
C36_SuccessNeverFailed ==
    [][\A w \in Workers :
          (Writes(w) /\ Succeeds(task[w].job) /\ Stored(task[w].jobId).id # 0) =>
             /\ StoredNext(task[w].jobId).state \notin {JobState.FAILED, JobState.DEAD}
             /\ StoredNext(task[w].jobId).attempts = Stored(task[w].jobId).attempts]_vars

(* ------------------------ what an update leaves ----------------------- *)
(* Before the first pool the client enqueues jobs and changes             *)
(* max_retries.  A pool of one worker runs alone and is killed between    *)
(* two of its steps; time passes, the client retries dead jobs until one      *)
(* retry is made, the pid file is removed and a pool is started again.    *)
FieldsNext ==
    \/ task[Main].pc = "crashed" /\ task[Client].pc = "ready" /\ Tick
    \/ Storage
    \/ /\ task[Main].pc = "down"
       /\ \/ \E c \in RunCommands : Enqueue(c, Undefined)
          \/ AddRead
          \/ \E v \in {1, MaxOverride} : ConfigSet("max_retries", v)
    \/ /\ PoolDown
       /\ \/ ~(reply.op = "retry" /\ reply.ok) /\ (\E id \in 1..MaxJobs : DlqRetry(id))
          \/ DlqGetJob
          \/ DlqRead
          \/ RemovePidFile
    \/ task[Client].pc = "ready" /\ StartPool(1)
    \/ ResetStuckJobs(Main)
    \/ ResetRead(Main)
    \/ SpawnWorkers
    \/ WorkerStep
    \/ running = NoTask /\ Crash

FieldsSpec == Init /\ [][FieldsNext]_vars

(* C37: no step changes the id, the command, max_retries or created_at of *)
(* a stored job, and a change of the configured max_retries leaves the    *)
(* stored jobs as they are.                                               *)
C37_CreationFieldsKept ==
    [][/\ \A i \in 1..Len(jobsFile) :
             /\ i <= Len(jobsFile')
             /\ jobsFile'[i].id = jobsFile[i].id
             /\ jobsFile'[i].command = jobsFile[i].command
             /\ jobsFile'[i].max_retries = jobsFile[i].max_retries
             /\ jobsFile'[i].created_at = jobsFile[i].created_at
       /\ config' # config => jobsFile' = jobsFile]_vars

(* C37 witness: a job enqueued under an earlier configured max_retries    *)
(* went to the dead letter queue, was retried from there by the client,   *)
(* and has failed again in a later pool.                                  *)
C37_Witness ==
    /\ task[Main].pc = "up"
    /\ reply.op = "retry" /\ reply.ok
    /\ \E i \in 1..Len(jobsFile) :
          /\ jobsFile[i].max_retries > 1
          /\ jobsFile[i].max_retries # config.max_retries
          /\ jobsFile[i].state = JobState.FAILED
          /\ jobsFile[i].attempts = 1
          /\ jobsFile[i].created_at < clock

(* resetStuckJobs of the pool writes the update of one job in this step. *)
ResetWrites == task[Main].pc = "resetW" /\ Writes(Main)

(* resetStuckJobs of the pool returns to start in this step. *)
ResetReturns == task[Main].pc \in {"reset", "resetR", "resetW"} /\ task'[Main].pc = "spawn"

(* The collection with the job of that id Pending and without worker_id. *)
WithReset(jobs, id) ==
    [i \in 1..Len(jobs) |->
        IF jobs[i].id = id
        THEN [jobs[i] EXCEPT !.state = JobState.PENDING, !.worker_id = NoWorker]
        ELSE jobs[i]]

(* C38: resetStuckJobs moves exactly the Processing jobs to Pending with  *)
(* worker_id cleared and returns their number: while it runs, the count   *)
(* so far and the jobs still Processing add up to the jobs it has to      *)
(* reset; each of its writes changes state and worker_id of one           *)
(* Processing job and nothing else in the collection; when it returns no  *)
(* job is Processing and any other step of it leaves the collection alone.*)
C38_ResetsExactlyProcessing ==
    [][/\ task[Main].pc = "reset" /\ task'[Main].pc \in {"resetR", "spawn"} =>
             /\ jobsFile' = jobsFile
             /\ task'[Main].resetCount = 0
             /\ task'[Main].pc = "spawn" <=> Stuck(jobsFile) = <<>>
             /\ task'[Main].pc = "resetR" =>
                   <<task'[Main].jobId>> \o task'[Main].todo = Ids(Stuck(jobsFile))
       /\ task[Main].pc \in {"resetR", "resetW"} =>
             /\ <<task[Main].jobId>> \o task[Main].todo = Ids(Stuck(jobsFile))
             /\ jobsFile' # jobsFile => ResetWrites
       /\ ResetWrites =>
             /\ jobsFile' = WithReset(jobsFile, task[Main].jobId)
             /\ task'[Main].resetCount = task[Main].resetCount + 1
             /\ Len(Stuck(jobsFile')) = Len(Stuck(jobsFile)) - 1
       /\ ResetReturns => Stuck(jobsFile') = <<>>]_vars

(* C38 witness: resetStuckJobs has returned after a pool was killed;      *)
(* one of the jobs it reset had failed before and keeps its attempts and  *)
(* its error message, and a job that was not Processing is in the store.  *)
C38_Witness ==
    /\ task[Main].pc = "spawn"
    /\ task[Main].resetCount >= 1
    /\ \E i, k \in 1..Len(jobsFile) :
          /\ jobsFile[i].state = JobState.PENDING
          /\ jobsFile[i].attempts = 1
          /\ jobsFile[i].error_message # "none"
          /\ jobsFile[k].state \in {JobState.FAILED, JobState.COMPLETED}

(* ------------------------- addJob called directly --------------------- *)
(* A caller of JobStorage appends job records with ids of its choice,     *)
(* one call after the other.                                              *)
AddJobNext ==
    \/ \E t \in {Client} : LockCheck(t) \/ LockCreate(t) \/ WriteTmp(t) \/ Rename(t)
    \/ \E id \in 1..MaxJobs, c \in RunCommands : AddJob(id, c)
    \/ AddRead

AddJobSpec == Init /\ [][AddJobNext]_vars

(* addJob is called with an id that a stored record has already. *)
AppendsDuplicate ==
    /\ task[Client].pc = "addW"
    /\ IndexOf(jobsFile, task[Client].job.id) # 0

(* C39: appending a job whose id is already present fails and leaves the  *)
(* store unchanged: no step of such an addJob changes the collection, the *)
(* call does not return the job, and the store never holds two records    *)
(* with the same id.                                                      *)
C39_NoDuplicateIds ==
    /\ [](\A i, k \in 1..Len(jobsFile) : jobsFile[i].id = jobsFile[k].id => i = k)
    /\ [][AppendsDuplicate => (jobsFile' = jobsFile /\ (reply' # reply => ~reply'.ok))]_vars

(* --------------------------- a stale jobs.lock ------------------------ *)
(* Jobs are enqueued, a pool of one worker runs alone and is killed at    *)
(* any moment, also inside readJobs or writeJobs; then the client         *)
(* enqueues and asks for the status, one command after the other.         *)
StaleLockNext ==
    \/ Storage
    \/ ClientLockWait
    \/ LockSleep
    \/ LockTimeout(Client)
    \/ /\ task[Main].pc \in {"down", "crashed"}
       /\ \/ \E c \in RunCommands : Enqueue(c, 1)
          \/ AddRead
    \/ /\ task[Main].pc = "crashed"
       /\ \/ Status
          \/ StatusRead
    \/ task[Main].pc = "down" /\ task[Client].pc = "ready" /\ StartPool(1)
    \/ ResetStuckJobs(Main)
    \/ SpawnWorkers
    \/ WorkerStep
    \/ Crash

StaleLockSpec == Init /\ [][StaleLockNext]_vars

(* The pool process was killed and jobs.lock is there, left by it. *)
StaleLock == task[Main].pc = "crashed" /\ lockFile = PoolPid

(* The client's command returns in this step. *)
CommandReturns == task[Client].pc # "ready" /\ task'[Client].pc = "ready"

(* C40: a process that was killed while it held jobs.lock does not block  *)
(* the store for ever.  An operation that finds the stale lock waits; it  *)
(* can give up as soon as it has waited longer than the lock timeout, and *)
(* it ends in no other way; giving up fails the command and removes the   *)
(* lock file.  From then on the lock file is there only while the client  *)
(* itself holds it, no operation waits, and every command succeeds.       *)
C40_StaleLockTimesOut ==
    [][/\ (StaleLock /\ task[Client].io = "wait") =>
             /\ clock - task[Client].since > LockTimeoutSecs => ENABLED LockTimeout(Client)
             /\ task'[Client].io # "wait" => TimesOut(Client)
       /\ TimesOut(Client) =>
             /\ StaleLock
             /\ lockFile' = NoPid
             /\ CommandReturns /\ ~reply'.ok
             /\ jobsFile' = jobsFile
       /\ (task[Main].pc = "crashed" /\ lockFile = NoPid) =>
             /\ lockFile' # NoPid => (lockFile' = ClientPid /\ task'[Client].io = "locked")
             /\ task'[Client].io # "wait"
             /\ CommandReturns => reply'.ok]_vars

(* C40 witness: after the kill a command has waited for the stale lock    *)
(* and given up, and a later status command has returned the counts.      *)
C40_Witness ==
    /\ task[Main].pc = "crashed"
    /\ clock > LockTimeoutSecs
    /\ task[Client].pc = "ready"
    /\ reply.op = "status" /\ reply.ok
    /\ lockFile = NoPid

====
